---- MODULE Spec2Model ----
(***************************************************************************)
(* A model of freqtrade/arguments.py: the --timerange mini-language parser  *)
(* (Arguments.parse_timerange), the positive-integer converter             *)
(* (Arguments.check_int_positive) and the argument facade (Arguments,       *)
(* its option groups and its sub-commands built on argparse).               *)
(*                                                                         *)
(* Texts are sequences of one-character strings.  Integers are TLC's        *)
(* (32 bit): the inputs are drawn so that every value fits.                 *)
(***************************************************************************)
EXTENDS Integers, Sequences, FiniteSets, TLC

VARIABLES
    text,        \* parse_timerange: the argument (absent, or a text)
    tr,          \* parse_timerange: the outcome of the call
    value,       \* check_int_positive: the argument (a text)
    cip,         \* check_int_positive: the outcome of the call
    args,        \* Arguments.args: the argument list given to the facade
    parsed_arg,  \* Arguments.parsed_arg: None, or the parsed Namespace
    parsers,     \* the argparse parsers alive; parsers[1] is Arguments.parser
    outcome,     \* how the last call on the facade ended
    loads,       \* how many times _load_args has run on Arguments.parser
    calls,       \* how many calls the facade has received
    target       \* the parser the last option-group call was given

----------------------------------------------------------------------------
(* Characters and Python's int() on a text                                  *)

\* A character outside ASCII is written by the name of its code point, as one
\* element of a text: "U+0661" is ARABIC-INDIC DIGIT ONE.
\* \d of a str pattern and int() accept every Unicode decimal digit (category
\* Nd, Unicode 14.0.0): the 66 blocks of ten below, in the order of their code
\* points (block 1 is ASCII).  Element d + 1 of a block is its digit d.
DigitBlocks ==
    << <<"0", "1", "2", "3", "4", "5", "6", "7", "8", "9">>,
       <<"U+0660", "U+0661", "U+0662", "U+0663", "U+0664",
         "U+0665", "U+0666", "U+0667", "U+0668", "U+0669">>,
       <<"U+06F0", "U+06F1", "U+06F2", "U+06F3", "U+06F4",
         "U+06F5", "U+06F6", "U+06F7", "U+06F8", "U+06F9">>,
       <<"U+07C0", "U+07C1", "U+07C2", "U+07C3", "U+07C4",
         "U+07C5", "U+07C6", "U+07C7", "U+07C8", "U+07C9">>,
       <<"U+0966", "U+0967", "U+0968", "U+0969", "U+096A",
         "U+096B", "U+096C", "U+096D", "U+096E", "U+096F">>,
       <<"U+09E6", "U+09E7", "U+09E8", "U+09E9", "U+09EA",
         "U+09EB", "U+09EC", "U+09ED", "U+09EE", "U+09EF">>,
       <<"U+0A66", "U+0A67", "U+0A68", "U+0A69", "U+0A6A",
         "U+0A6B", "U+0A6C", "U+0A6D", "U+0A6E", "U+0A6F">>,
       <<"U+0AE6", "U+0AE7", "U+0AE8", "U+0AE9", "U+0AEA",
         "U+0AEB", "U+0AEC", "U+0AED", "U+0AEE", "U+0AEF">>,
       <<"U+0B66", "U+0B67", "U+0B68", "U+0B69", "U+0B6A",
         "U+0B6B", "U+0B6C", "U+0B6D", "U+0B6E", "U+0B6F">>,
       <<"U+0BE6", "U+0BE7", "U+0BE8", "U+0BE9", "U+0BEA",
         "U+0BEB", "U+0BEC", "U+0BED", "U+0BEE", "U+0BEF">>,
       <<"U+0C66", "U+0C67", "U+0C68", "U+0C69", "U+0C6A",
         "U+0C6B", "U+0C6C", "U+0C6D", "U+0C6E", "U+0C6F">>,
       <<"U+0CE6", "U+0CE7", "U+0CE8", "U+0CE9", "U+0CEA",
         "U+0CEB", "U+0CEC", "U+0CED", "U+0CEE", "U+0CEF">>,
       <<"U+0D66", "U+0D67", "U+0D68", "U+0D69", "U+0D6A",
         "U+0D6B", "U+0D6C", "U+0D6D", "U+0D6E", "U+0D6F">>,
       <<"U+0DE6", "U+0DE7", "U+0DE8", "U+0DE9", "U+0DEA",
         "U+0DEB", "U+0DEC", "U+0DED", "U+0DEE", "U+0DEF">>,
       <<"U+0E50", "U+0E51", "U+0E52", "U+0E53", "U+0E54",
         "U+0E55", "U+0E56", "U+0E57", "U+0E58", "U+0E59">>,
       <<"U+0ED0", "U+0ED1", "U+0ED2", "U+0ED3", "U+0ED4",
         "U+0ED5", "U+0ED6", "U+0ED7", "U+0ED8", "U+0ED9">>,
       <<"U+0F20", "U+0F21", "U+0F22", "U+0F23", "U+0F24",
         "U+0F25", "U+0F26", "U+0F27", "U+0F28", "U+0F29">>,
       <<"U+1040", "U+1041", "U+1042", "U+1043", "U+1044",
         "U+1045", "U+1046", "U+1047", "U+1048", "U+1049">>,
       <<"U+1090", "U+1091", "U+1092", "U+1093", "U+1094",
         "U+1095", "U+1096", "U+1097", "U+1098", "U+1099">>,
       <<"U+17E0", "U+17E1", "U+17E2", "U+17E3", "U+17E4",
         "U+17E5", "U+17E6", "U+17E7", "U+17E8", "U+17E9">>,
       <<"U+1810", "U+1811", "U+1812", "U+1813", "U+1814",
         "U+1815", "U+1816", "U+1817", "U+1818", "U+1819">>,
       <<"U+1946", "U+1947", "U+1948", "U+1949", "U+194A",
         "U+194B", "U+194C", "U+194D", "U+194E", "U+194F">>,
       <<"U+19D0", "U+19D1", "U+19D2", "U+19D3", "U+19D4",
         "U+19D5", "U+19D6", "U+19D7", "U+19D8", "U+19D9">>,
       <<"U+1A80", "U+1A81", "U+1A82", "U+1A83", "U+1A84",
         "U+1A85", "U+1A86", "U+1A87", "U+1A88", "U+1A89">>,
       <<"U+1A90", "U+1A91", "U+1A92", "U+1A93", "U+1A94",
         "U+1A95", "U+1A96", "U+1A97", "U+1A98", "U+1A99">>,
       <<"U+1B50", "U+1B51", "U+1B52", "U+1B53", "U+1B54",
         "U+1B55", "U+1B56", "U+1B57", "U+1B58", "U+1B59">>,
       <<"U+1BB0", "U+1BB1", "U+1BB2", "U+1BB3", "U+1BB4",
         "U+1BB5", "U+1BB6", "U+1BB7", "U+1BB8", "U+1BB9">>,
       <<"U+1C40", "U+1C41", "U+1C42", "U+1C43", "U+1C44",
         "U+1C45", "U+1C46", "U+1C47", "U+1C48", "U+1C49">>,
       <<"U+1C50", "U+1C51", "U+1C52", "U+1C53", "U+1C54",
         "U+1C55", "U+1C56", "U+1C57", "U+1C58", "U+1C59">>,
       <<"U+A620", "U+A621", "U+A622", "U+A623", "U+A624",
         "U+A625", "U+A626", "U+A627", "U+A628", "U+A629">>,
       <<"U+A8D0", "U+A8D1", "U+A8D2", "U+A8D3", "U+A8D4",
         "U+A8D5", "U+A8D6", "U+A8D7", "U+A8D8", "U+A8D9">>,
       <<"U+A900", "U+A901", "U+A902", "U+A903", "U+A904",
         "U+A905", "U+A906", "U+A907", "U+A908", "U+A909">>,
       <<"U+A9D0", "U+A9D1", "U+A9D2", "U+A9D3", "U+A9D4",
         "U+A9D5", "U+A9D6", "U+A9D7", "U+A9D8", "U+A9D9">>,
       <<"U+A9F0", "U+A9F1", "U+A9F2", "U+A9F3", "U+A9F4",
         "U+A9F5", "U+A9F6", "U+A9F7", "U+A9F8", "U+A9F9">>,
       <<"U+AA50", "U+AA51", "U+AA52", "U+AA53", "U+AA54",
         "U+AA55", "U+AA56", "U+AA57", "U+AA58", "U+AA59">>,
       <<"U+ABF0", "U+ABF1", "U+ABF2", "U+ABF3", "U+ABF4",
         "U+ABF5", "U+ABF6", "U+ABF7", "U+ABF8", "U+ABF9">>,
       <<"U+FF10", "U+FF11", "U+FF12", "U+FF13", "U+FF14",
         "U+FF15", "U+FF16", "U+FF17", "U+FF18", "U+FF19">>,
       <<"U+104A0", "U+104A1", "U+104A2", "U+104A3", "U+104A4",
         "U+104A5", "U+104A6", "U+104A7", "U+104A8", "U+104A9">>,
       <<"U+10D30", "U+10D31", "U+10D32", "U+10D33", "U+10D34",
         "U+10D35", "U+10D36", "U+10D37", "U+10D38", "U+10D39">>,
       <<"U+11066", "U+11067", "U+11068", "U+11069", "U+1106A",
         "U+1106B", "U+1106C", "U+1106D", "U+1106E", "U+1106F">>,
       <<"U+110F0", "U+110F1", "U+110F2", "U+110F3", "U+110F4",
         "U+110F5", "U+110F6", "U+110F7", "U+110F8", "U+110F9">>,
       <<"U+11136", "U+11137", "U+11138", "U+11139", "U+1113A",
         "U+1113B", "U+1113C", "U+1113D", "U+1113E", "U+1113F">>,
       <<"U+111D0", "U+111D1", "U+111D2", "U+111D3", "U+111D4",
         "U+111D5", "U+111D6", "U+111D7", "U+111D8", "U+111D9">>,
       <<"U+112F0", "U+112F1", "U+112F2", "U+112F3", "U+112F4",
         "U+112F5", "U+112F6", "U+112F7", "U+112F8", "U+112F9">>,
       <<"U+11450", "U+11451", "U+11452", "U+11453", "U+11454",
         "U+11455", "U+11456", "U+11457", "U+11458", "U+11459">>,
       <<"U+114D0", "U+114D1", "U+114D2", "U+114D3", "U+114D4",
         "U+114D5", "U+114D6", "U+114D7", "U+114D8", "U+114D9">>,
       <<"U+11650", "U+11651", "U+11652", "U+11653", "U+11654",
         "U+11655", "U+11656", "U+11657", "U+11658", "U+11659">>,
       <<"U+116C0", "U+116C1", "U+116C2", "U+116C3", "U+116C4",
         "U+116C5", "U+116C6", "U+116C7", "U+116C8", "U+116C9">>,
       <<"U+11730", "U+11731", "U+11732", "U+11733", "U+11734",
         "U+11735", "U+11736", "U+11737", "U+11738", "U+11739">>,
       <<"U+118E0", "U+118E1", "U+118E2", "U+118E3", "U+118E4",
         "U+118E5", "U+118E6", "U+118E7", "U+118E8", "U+118E9">>,
       <<"U+11950", "U+11951", "U+11952", "U+11953", "U+11954",
         "U+11955", "U+11956", "U+11957", "U+11958", "U+11959">>,
       <<"U+11C50", "U+11C51", "U+11C52", "U+11C53", "U+11C54",
         "U+11C55", "U+11C56", "U+11C57", "U+11C58", "U+11C59">>,
       <<"U+11D50", "U+11D51", "U+11D52", "U+11D53", "U+11D54",
         "U+11D55", "U+11D56", "U+11D57", "U+11D58", "U+11D59">>,
       <<"U+11DA0", "U+11DA1", "U+11DA2", "U+11DA3", "U+11DA4",
         "U+11DA5", "U+11DA6", "U+11DA7", "U+11DA8", "U+11DA9">>,
       <<"U+16A60", "U+16A61", "U+16A62", "U+16A63", "U+16A64",
         "U+16A65", "U+16A66", "U+16A67", "U+16A68", "U+16A69">>,
       <<"U+16AC0", "U+16AC1", "U+16AC2", "U+16AC3", "U+16AC4",
         "U+16AC5", "U+16AC6", "U+16AC7", "U+16AC8", "U+16AC9">>,
       <<"U+16B50", "U+16B51", "U+16B52", "U+16B53", "U+16B54",
         "U+16B55", "U+16B56", "U+16B57", "U+16B58", "U+16B59">>,
       <<"U+1D7CE", "U+1D7CF", "U+1D7D0", "U+1D7D1", "U+1D7D2",
         "U+1D7D3", "U+1D7D4", "U+1D7D5", "U+1D7D6", "U+1D7D7">>,
       <<"U+1D7D8", "U+1D7D9", "U+1D7DA", "U+1D7DB", "U+1D7DC",
         "U+1D7DD", "U+1D7DE", "U+1D7DF", "U+1D7E0", "U+1D7E1">>,
       <<"U+1D7E2", "U+1D7E3", "U+1D7E4", "U+1D7E5", "U+1D7E6",
         "U+1D7E7", "U+1D7E8", "U+1D7E9", "U+1D7EA", "U+1D7EB">>,
       <<"U+1D7EC", "U+1D7ED", "U+1D7EE", "U+1D7EF", "U+1D7F0",
         "U+1D7F1", "U+1D7F2", "U+1D7F3", "U+1D7F4", "U+1D7F5">>,
       <<"U+1D7F6", "U+1D7F7", "U+1D7F8", "U+1D7F9", "U+1D7FA",
         "U+1D7FB", "U+1D7FC", "U+1D7FD", "U+1D7FE", "U+1D7FF">>,
       <<"U+1E140", "U+1E141", "U+1E142", "U+1E143", "U+1E144",
         "U+1E145", "U+1E146", "U+1E147", "U+1E148", "U+1E149">>,
       <<"U+1E2F0", "U+1E2F1", "U+1E2F2", "U+1E2F3", "U+1E2F4",
         "U+1E2F5", "U+1E2F6", "U+1E2F7", "U+1E2F8", "U+1E2F9">>,
       <<"U+1E950", "U+1E951", "U+1E952", "U+1E953", "U+1E954",
         "U+1E955", "U+1E956", "U+1E957", "U+1E958", "U+1E959">>,
       <<"U+1FBF0", "U+1FBF1", "U+1FBF2", "U+1FBF3", "U+1FBF4",
         "U+1FBF5", "U+1FBF6", "U+1FBF7", "U+1FBF8", "U+1FBF9">> >>

DigitChars == UNION {{DigitBlocks[b][k] : k \in 1..10} : b \in 1..Len(DigitBlocks)}

DigitVal(c) == CHOOSE d \in 0..9 : \E b \in 1..Len(DigitBlocks) : DigitBlocks[b][d + 1] = c

IsDigits(s) == \A i \in 1..Len(s) : s[i] \in DigitChars

\* The value of a non-empty run of decimal digits (leading zeros allowed).
RECURSIVE DigitsValue(_)
DigitsValue(s) ==
    IF Len(s) = 0 THEN 0
    ELSE 10 * DigitsValue(SubSeq(s, 1, Len(s) - 1)) + DigitVal(s[Len(s)])

\* A variant of IntOfGroup that drops the sign of the captured group.
IntOfGroup_unsigned(s) ==
    IF Len(s) > 0 /\ s[1] = "-" THEN DigitsValue(SubSeq(s, 2, Len(s))) ELSE DigitsValue(s)

\* int(s) for a text made of an optional "-" and digits, as the groups
\* captured by the timerange expressions are.
IntOfGroup(s) ==
    IF Len(s) > 0 /\ s[1] = "-"
    THEN 0 - DigitsValue(SubSeq(s, 2, Len(s)))
    ELSE DigitsValue(s)

----------------------------------------------------------------------------
(* arrow.get(s, 'YYYYMMDD').timestamp                                       *)

DateLen == 8
EpochLen == 10

SecondsPerDay == 86400
\* date(1970, 1, 1).toordinal()
EpochOrdinal == 719163

IsLeap(y) == (y % 4 = 0) /\ ((y % 100 # 0) \/ (y % 400 = 0))

DaysInMonth(y, m) ==
    IF m = 2 THEN (IF IsLeap(y) THEN 29 ELSE 28)
    ELSE IF m \in {4, 6, 9, 11} THEN 30 ELSE 31

RECURSIVE DaysBeforeMonth(_, _)
DaysBeforeMonth(y, m) ==
    IF m = 1 THEN 0 ELSE DaysBeforeMonth(y, m - 1) + DaysInMonth(y, m - 1)

DaysBeforeYear(y) ==
    (y - 1) * 365 + ((y - 1) \div 4) - ((y - 1) \div 100) + ((y - 1) \div 400)

YearOf(s) == DigitsValue(SubSeq(s, 1, 4))
MonthOf(s) == DigitsValue(SubSeq(s, 5, 6))
DayOf(s) == DigitsValue(SubSeq(s, 7, 8))

\* datetime(year, month, day) accepts the triple (it raises ValueError otherwise).
ValidDate(s) ==
    /\ YearOf(s) >= 1
    /\ MonthOf(s) >= 1 /\ MonthOf(s) <= 12
    /\ DayOf(s) >= 1 /\ DayOf(s) <= DaysInMonth(YearOf(s), MonthOf(s))

\* A variant of ArrowTimestamp that reads the day in a zone one hour east of UTC.
ArrowTimestamp_local(s) ==
    (DaysBeforeYear(YearOf(s)) + DaysBeforeMonth(YearOf(s), MonthOf(s)) + DayOf(s)
        - EpochOrdinal) * SecondsPerDay - 3600

\* Epoch seconds of 00:00:00 UTC of the day YYYYMMDD (s is a valid date).
ArrowTimestamp(s) ==
    (DaysBeforeYear(YearOf(s)) + DaysBeforeMonth(YearOf(s), MonthOf(s)) + DayOf(s)
        - EpochOrdinal) * SecondsPerDay

----------------------------------------------------------------------------
(* The regular expressions of parse_timerange                               *)

\* '$' matches at the end of the text and also just before a final newline.
BeforeFinalNewline(t) ==
    IF Len(t) > 0 /\ t[Len(t)] = "\n" THEN SubSeq(t, 1, Len(t) - 1) ELSE t

\* \d{n} (n > 0) or \d+ (n = 0) matches the whole of s.
DigitRun(s, n) == Len(s) > 0 /\ IsDigits(s) /\ (n = 0 \/ Len(s) = n)

\* The positions of "-" in t.
Dashes(t) == {i \in 1..Len(t) : t[i] = "-"}

NoMatch == <<"nomatch">>

\* re.match of one expression: the captured groups, or NoMatch.
\* shape "stop":  ^-(\d{n})$      shape "start": ^(\d{n})-$
\* shape "both":  ^(\d{n})-(\d{n})$   shape "neg": ^(-\d+)$
ReMatch(rex, t) ==
    LET b == BeforeFinalNewline(t)
        L == Len(b)
    IN  CASE rex.shape = "stop" ->
               IF L >= 2 /\ b[1] = "-" /\ DigitRun(SubSeq(b, 2, L), rex.n)
               THEN <<SubSeq(b, 2, L)>> ELSE NoMatch
          [] rex.shape = "neg" ->
               IF L >= 2 /\ b[1] = "-" /\ DigitRun(SubSeq(b, 2, L), rex.n)
               THEN <<b>> ELSE NoMatch
          [] rex.shape = "start" ->
               IF L >= 2 /\ b[L] = "-" /\ DigitRun(SubSeq(b, 1, L - 1), rex.n)
               THEN <<SubSeq(b, 1, L - 1)>> ELSE NoMatch
          [] rex.shape = "both" ->
               IF /\ Cardinality(Dashes(b)) = 1
                  /\ LET d == CHOOSE i \in Dashes(b) : TRUE
                     IN  /\ DigitRun(SubSeq(b, 1, d - 1), rex.n)
                         /\ DigitRun(SubSeq(b, d + 1, L), rex.n)
               THEN LET d == CHOOSE i \in Dashes(b) : TRUE
                    IN  <<SubSeq(b, 1, d - 1), SubSeq(b, d + 1, L)>>
               ELSE NoMatch

\* A variant of syntax that lists the generic expressions before the date ones.
syntax_generic_first ==
    << [shape |-> "neg",   n |-> 0,        stype |-> <<"none", "line">>],
       [shape |-> "start", n |-> 0,        stype |-> <<"line", "none">>],
       [shape |-> "both",  n |-> 0,        stype |-> <<"index", "index">>],
       [shape |-> "stop",  n |-> DateLen,  stype |-> <<"none", "date">>],
       [shape |-> "start", n |-> DateLen,  stype |-> <<"date", "none">>],
       [shape |-> "both",  n |-> DateLen,  stype |-> <<"date", "date">>],
       [shape |-> "stop",  n |-> EpochLen, stype |-> <<"none", "date">>],
       [shape |-> "start", n |-> EpochLen, stype |-> <<"date", "none">>],
       [shape |-> "both",  n |-> EpochLen, stype |-> <<"date", "date">>] >>

\* The table `syntax`: expression and (starttype, stoptype), in order.
syntax ==
    << [shape |-> "stop",  n |-> DateLen,  stype |-> <<"none", "date">>],
       [shape |-> "start", n |-> DateLen,  stype |-> <<"date", "none">>],
       [shape |-> "both",  n |-> DateLen,  stype |-> <<"date", "date">>],
       [shape |-> "stop",  n |-> EpochLen, stype |-> <<"none", "date">>],
       [shape |-> "start", n |-> EpochLen, stype |-> <<"date", "none">>],
       [shape |-> "both",  n |-> EpochLen, stype |-> <<"date", "date">>],
       [shape |-> "neg",   n |-> 0,        stype |-> <<"none", "line">>],
       [shape |-> "start", n |-> 0,        stype |-> <<"line", "none">>],
       [shape |-> "both",  n |-> 0,        stype |-> <<"index", "index">>] >>

\* The first expression of the table that matches t, 0 when none does.
FirstMatch(t) ==
    IF \E i \in 1..Len(syntax) : ReMatch(syntax[i], t) # NoMatch
    THEN CHOOSE i \in 1..Len(syntax) :
            /\ ReMatch(syntax[i], t) # NoMatch
            /\ \A j \in 1..(i - 1) : ReMatch(syntax[j], t) = NoMatch
    ELSE 0

----------------------------------------------------------------------------
(* TimeRange and parse_timerange                                            *)

NoText == <<>>

TimeRange(starttype, stoptype, startts, stopts) ==
    [status |-> "ok", starttype |-> starttype, stoptype |-> stoptype,
     startts |-> startts, stopts |-> stopts, text |-> NoText]

\* An exception leaving parse_timerange: the generic Exception carries the
\* text in its message; ValueError is datetime's, for an impossible date.
Raised(kind, t) ==
    [status |-> kind, starttype |-> "none", stoptype |-> "none",
     startts |-> 0, stopts |-> 0, text |-> t]

Pending == Raised("pending", NoText)

\* The conversion of one captured group of kind `kind`.
ConvertsWithoutError(kind, g) == ~(kind = "date" /\ Len(g) = DateLen) \/ ValidDate(g)

Convert(kind, g) ==
    IF kind = "date" /\ Len(g) = DateLen THEN ArrowTimestamp(g) ELSE IntOfGroup(g)

\* A variant of AbsentResult without the None test: re.match(rex, None) raises.
AbsentResult_unchecked == Raised("TypeError", NoText)

\* `if text is None: return TimeRange(None, None, 0, 0)`
AbsentResult == TimeRange("none", "none", 0, 0)

\* A variant of NoRuleMatched that falls out of the loop with an empty range.
NoRuleMatched_silent(t) == TimeRange("none", "none", 0, 0)

\* `raise Exception('Incorrect syntax for timerange "%s"' % text)`
NoRuleMatched(t) == Raised("Exception", t)

\* A variant of MatchedResult that passes stop and start in the wrong order.
MatchedResult_swapped(stype, start, stop) == TimeRange(stype[1], stype[2], stop, start)

\* `return TimeRange(stype[0], stype[1], start, stop)`
MatchedResult(stype, start, stop) == TimeRange(stype[1], stype[2], start, stop)

\* text is [absent |-> BOOLEAN, s |-> the text].
parse_timerange(txt) ==
    IF txt.absent THEN AbsentResult
    ELSE LET r == FirstMatch(txt.s) IN
         IF r = 0 THEN NoRuleMatched(txt.s)
         ELSE LET stype == syntax[r].stype
                  rvals == ReMatch(syntax[r], txt.s)
                  hasStart == stype[1] # "none"
                  hasStop == stype[2] # "none"
                  starts == rvals[1]
                  stops == rvals[IF hasStart THEN 2 ELSE 1]
              IN  IF hasStart /\ ~ConvertsWithoutError(stype[1], starts)
                  THEN Raised("ValueError", NoText)
                  ELSE IF hasStop /\ ~ConvertsWithoutError(stype[2], stops)
                  THEN Raised("ValueError", NoText)
                  ELSE MatchedResult(stype,
                                     IF hasStart THEN Convert(stype[1], starts) ELSE 0,
                                     IF hasStop THEN Convert(stype[2], stops) ELSE 0)

----------------------------------------------------------------------------
(* The inputs of parse_timerange                                            *)

Pow10(k) == IF k = 0 THEN 1 ELSE IF k = 1 THEN 10 ELSE IF k = 2 THEN 100
            ELSE IF k = 3 THEN 1000 ELSE IF k = 4 THEN 10000
            ELSE IF k = 5 THEN 100000 ELSE IF k = 6 THEN 1000000
            ELSE IF k = 7 THEN 10000000 ELSE IF k = 8 THEN 100000000
            ELSE 1000000000

\* The digit d of block b of DigitBlocks (block 1 is ASCII).
DigitChar(b, d) == DigitBlocks[b][d + 1]

\* The numeral of n written on w digits of block b (zero padded; w > 10 pads
\* further).
NumeralIn(b, n, w) ==
    [i \in 1..w |-> IF w - i > 9 THEN DigitChar(b, 0)
                    ELSE DigitChar(b, (n \div Pow10(w - i)) % 10)]

Numeral(n, w) == NumeralIn(1, n, w)

\* The largest short line count / index tried.
MaxSmall == 2

DigitGroups ==
    {<<>>}
    \cup {Numeral(n, 1) : n \in 0..MaxSmall}
    \cup {Numeral(7, 3), Numeral(2018010, 7), Numeral(201801011, 9), Numeral(12, 11)}
    \cup {Numeral(d, 8) : d \in {20180101, 20180201, 20200229, 19700101, 19691231,
                                 20181301, 20180230, 20190229, 101, 20180100}}
    \cup {Numeral(1525132800, 10), Numeral(100, 10)}
    \cup {NumeralIn(2, 1, 1), NumeralIn(37, 1, 1), NumeralIn(2, 20180101, 8),
          Numeral(2018010, 7) \o NumeralIn(37, 1, 1), NumeralIn(37, 1525132800, 10),
          NumeralIn(3, 2, 1)}

Separators == {<<"-">>, <<>>, <<"x">>, <<"-", "-">>}
Tails == {<<>>, <<"\n">>, <<"x">>}

\* The input texts: the groups combined, and every digit on its own before a
\* dash.
Texts == {l \o s \o r \o e : l \in DigitGroups, s \in Separators,
                             r \in DigitGroups, e \in Tails}
         \cup {<<c, "-">> : c \in DigitChars}

TextArgs == {[absent |-> TRUE, s |-> NoText]}
            \cup {[absent |-> FALSE, s |-> t] : t \in Texts}

----------------------------------------------------------------------------
(* check_int_positive                                                       *)

\* The characters int() skips around a numeral.  U+001C..U+001F, which
\* str.strip() removes, are not among them.
Whitespace ==
    {" ", "\t", "\n", "\r", "\f", "U+000B", "U+0085", "U+00A0", "U+1680", "U+2000", "U+2001", "U+2002", "U+2003", "U+2004",
     "U+2005", "U+2006", "U+2007", "U+2008", "U+2009", "U+200A", "U+2028", "U+2029",
     "U+202F", "U+205F", "U+3000"}

\* The text int() converts, the whitespace around it skipped.
RECURSIVE Strip(_)
Strip(s) ==
    IF Len(s) = 0 THEN s
    ELSE IF s[1] \in Whitespace THEN Strip(Tail(s))
    ELSE IF s[Len(s)] \in Whitespace THEN Strip(SubSeq(s, 1, Len(s) - 1))
    ELSE s

\* The digits of a numeral body, its underscores dropped.
RECURSIVE DropUnderscores(_)
DropUnderscores(s) ==
    IF Len(s) = 0 THEN s
    ELSE IF s[1] = "_" THEN DropUnderscores(Tail(s))
    ELSE <<s[1]>> \o DropUnderscores(Tail(s))

\* A decimal numeral body: digits, with single underscores between digits.
IsNumeralBody(s) ==
    /\ Len(s) > 0
    /\ \A i \in 1..Len(s) : s[i] \in DigitChars \cup {"_"}
    /\ \A i \in 1..Len(s) : s[i] = "_" =>
          /\ i > 1 /\ i < Len(s)
          /\ s[i - 1] \in DigitChars /\ s[i + 1] \in DigitChars

HasSign(s) == Len(s) > 0 /\ s[1] \in {"-", "+"}
Unsigned(s) == IF HasSign(s) THEN Tail(s) ELSE s

\* int(s) succeeds (it raises ValueError otherwise).
IsPyInt(s) == IsNumeralBody(Unsigned(Strip(s)))

\* int(s), for a text on which it succeeds.
PyInt(s) ==
    LET t == Strip(s)
        m == DigitsValue(DropUnderscores(Unsigned(t)))
    IN  IF HasSign(t) /\ t[1] = "-" THEN 0 - m ELSE m

Returned(uint) == [status |-> "ok", uint |-> uint, value |-> NoText]
ArgumentTypeError(v) == [status |-> "ArgumentTypeError", uint |-> 0, value |-> v]
NotCalled == [status |-> "pending", uint |-> 0, value |-> NoText]

\* A variant of check_int_positive that rejects negative values only (uint < 0).
check_int_positive_nonnegative(v) ==
    IF IsPyInt(v) /\ ~(PyInt(v) < 0) THEN Returned(PyInt(v)) ELSE ArgumentTypeError(v)

check_int_positive(v) ==
    IF IsPyInt(v) /\ ~(PyInt(v) <= 0) THEN Returned(PyInt(v)) ELSE ArgumentTypeError(v)

\* The inputs of check_int_positive: every text of at most MaxValueLen
\* characters of ValueChars, every digit on its own, and "5" with each
\* whitespace character and each of U+001C..U+001F before or after it.
MaxValueLen == 3
ValueChars == {"0", "1", "5", "-", "+", " ", "_", "a", ".", "\t", "U+00A0", "U+001C",
               "U+0663"}
Values == UNION {[1..n -> ValueChars] : n \in 0..MaxValueLen}
          \cup {<<c>> : c \in DigitChars}
          \cup {<<w, "5">> : w \in Whitespace \cup {"U+001C", "U+001D", "U+001E", "U+001F"}}
          \cup {<<"5", w>> : w \in Whitespace \cup {"U+001C", "U+001D", "U+001E", "U+001F"}}

----------------------------------------------------------------------------
(* Values held by a parsed Namespace and by the option definitions          *)

None == [t |-> "None"]
StrV(s) == [t |-> "str", v |-> s]
IntV(n) == [t |-> "int", v |-> n]
FloatV(n) == [t |-> "float", v |-> n]
BoolV(b) == [t |-> "bool", v |-> b]
ListV(q) == [t |-> "list", v |-> q]
\* A value this module imports: freqtrade.constants.X, a handler `start`.
Imported(name) == [t |-> "imported", v |-> name]
\* argparse.SUPPRESS: the option leaves no attribute in the Namespace.
Suppress == [t |-> "SUPPRESS"]

DEFAULT_CONFIG == Imported("constants.DEFAULT_CONFIG")

\* One add_argument call: its option strings and keyword arguments.
\* nargs "1" stands for an absent nargs of a value-taking action, "0" for an
\* action that takes no value; choices {} stands for no restriction.
Option(flags, dest, action, nargs, default, type) ==
    [flags |-> flags, dest |-> dest, action |-> action, nargs |-> nargs,
     default |-> default, type |-> type, const |-> None, choices |-> {}]

\* The -h/--help option every ArgumentParser starts with.
HelpOption == Option(<<"-h", "--help">>, "help", "help", "0", Suppress, "none")

\* A variant of ConfigOption that stores the default in the option itself.
ConfigOption_with_default ==
    Option(<<"-c", "--config">>, "config", "append", "1", ListV(<<DEFAULT_CONFIG>>), "str")

\* The -c/--config option: append, no default given.
ConfigOption == Option(<<"-c", "--config">>, "config", "append", "1", None, "str")

\* The add_argument calls of common_args_parser, in order.
common_options ==
    << Option(<<"-v", "--verbose">>, "loglevel", "count", "0", IntV(0), "none"),
       Option(<<"--logfile">>, "logfile", "store", "1", None, "str"),
       Option(<<"--version">>, "version", "version", "0", Suppress, "none"),
       ConfigOption,
       Option(<<"-d", "--datadir">>, "datadir", "store", "1", None, "str"),
       Option(<<"-s", "--strategy">>, "strategy", "store", "1", StrV("DefaultStrategy"), "str"),
       Option(<<"--strategy-path">>, "strategy_path", "store", "1", None, "str"),
       [Option(<<"--dynamic-whitelist">>, "dynamic_whitelist", "store", "?", None, "int")
            EXCEPT !.const = Imported("constants.DYNAMIC_WHITELIST")],
       Option(<<"--db-url">>, "db_url", "store", "1", None, "str"),
       Option(<<"--sd-notify">>, "sd_notify", "store_true", "0", BoolV(FALSE), "none") >>

\* The add_argument calls of optimizer_shared_options, in order.
shared_options ==
    << Option(<<"-i", "--ticker-interval">>, "ticker_interval", "store", "1", None, "str"),
       Option(<<"--timerange">>, "timerange", "store", "1", None, "str"),
       Option(<<"--max_open_trades">>, "max_open_trades", "store", "1", None, "int"),
       Option(<<"--stake_amount">>, "stake_amount", "store", "1", None, "float"),
       Option(<<"-r", "--refresh-pairs-cached">>, "refresh_pairs", "store_true", "0",
              BoolV(FALSE), "none") >>

\* The add_argument calls of backtesting_options, in order.
backtesting_only_options ==
    << Option(<<"--eps", "--enable-position-stacking">>, "position_stacking", "store_true",
              "0", BoolV(FALSE), "none"),
       Option(<<"--dmmp", "--disable-max-market-positions">>, "use_max_market_positions",
              "store_false", "0", BoolV(TRUE), "none"),
       Option(<<"-l", "--live">>, "live", "store_true", "0", BoolV(FALSE), "none"),
       Option(<<"--strategy-list">>, "strategy_list", "store", "+", None, "none"),
       Option(<<"--export">>, "export", "store", "1", None, "str"),
       Option(<<"--export-filename">>, "exportfilename", "store", "1",
              StrV("user_data/backtest_data/backtest-result.json"), "str") >>

\* The add_argument call of edge_options.
edge_only_options ==
    << Option(<<"--stoplosses">>, "stoploss_range", "store", "1", None, "str") >>

\* The add_argument calls of hyperopt_options, in order.
hyperopt_only_options ==
    << Option(<<"--customhyperopt">>, "hyperopt", "store", "1",
              Imported("constants.DEFAULT_HYPEROPT"), "str"),
       Option(<<"--eps", "--enable-position-stacking">>, "position_stacking", "store_true",
              "0", BoolV(FALSE), "none"),
       Option(<<"--dmmp", "--disable-max-market-positions">>, "use_max_market_positions",
              "store_false", "0", BoolV(TRUE), "none"),
       Option(<<"-e", "--epochs">>, "epochs", "store", "1",
              Imported("constants.HYPEROPT_EPOCH"), "int"),
       [Option(<<"-s", "--spaces">>, "spaces", "store", "+", StrV("all"), "none")
            EXCEPT !.choices = {"all", "buy", "sell", "roi", "stoploss"}],
       Option(<<"--print-all">>, "print_all", "store_true", "0", BoolV(FALSE), "none"),
       Option(<<"-j", "--job-workers">>, "hyperopt_jobs", "store", "1", IntV(-1), "int"),
       Option(<<"--random-state">>, "hyperopt_random_state", "store", "1", None,
              "check_int_positive") >>

\* The add_argument call of scripts_options.
scripts_only_options ==
    << Option(<<"-p", "--pairs">>, "pairs", "store", "1", None, "none") >>

\* The add_argument calls of testdata_dl_options, in order.
testdata_dl_only_options ==
    << Option(<<"--pairs-file">>, "pairs_file", "store", "1", None, "none"),
       Option(<<"--export">>, "export", "store", "1", None, "none"),
       Option(<<"-c", "--config">>, "config", "append", "1", None, "str"),
       Option(<<"--days">>, "days", "store", "1", None, "int"),
       Option(<<"--exchange">>, "exchange", "store", "1", StrV("bittrex"), "str"),
       [Option(<<"-t", "--timeframes">>, "timeframes", "store", "+",
               ListV(<<StrV("1m"), StrV("5m")>>), "none")
            EXCEPT !.choices = {"1m", "3m", "5m", "15m", "30m", "1h", "2h", "4h", "6h", "8h",
                                "12h", "1d", "3d", "1w"}],
       Option(<<"--erase">>, "erase", "store_true", "0", BoolV(FALSE), "none") >>

----------------------------------------------------------------------------
(* argparse: building parsers                                               *)

Range(q) == {q[i] : i \in 1..Len(q)}

\* The Action object add_argument makes of an option: the keyword arguments,
\* and id, the identity of the object.  Records of one id are one object.
Action(opt, id) ==
    [flags |-> opt.flags, dest |-> opt.dest, action |-> opt.action, nargs |-> opt.nargs,
     default |-> opt.default, type |-> opt.type, const |-> opt.const,
     choices |-> opt.choices, id |-> id]

\* The option an Action object was made of, as the object is now.
OptionOf(a) ==
    [flags |-> a.flags, dest |-> a.dest, action |-> a.action, nargs |-> a.nargs,
     default |-> a.default, type |-> a.type, const |-> a.const, choices |-> a.choices]

\* The Action objects made so far for the parsers h: an object stays
\* registered under its option strings from add_argument on.
Objects(h) == UNION {h[p].option_string_actions : p \in 1..Len(h)}

\* A variant of NewId that takes the object an earlier add_argument call made
\* of the same option, where there is one.
NewId_reused(h, opt) ==
    LET same == {a \in Objects(h) : a.flags = opt.flags}
    IN  IF same # {} THEN (CHOOSE a \in same : TRUE).id
        ELSE 1 + Cardinality(Objects(h))

\* The identity of the Action object add_argument creates for opt: every call
\* makes a new object, whatever the option; objects are numbered as made.
NewId(h, opt) == 1 + Cardinality(Objects(h))

\* argparse.ArgumentParser(...) among the parsers h: only -h/--help, no
\* sub-commands, no defaults.  actions is parser._actions;
\* option_string_actions holds the objects parser._option_string_actions
\* refers to; commands lists the sub-commands as <<name, parser>> pairs;
\* defaults is what set_defaults stored, as <<dest, value>> pairs.
NewParser(h) ==
    LET help == Action(HelpOption, NewId(h, HelpOption))
    IN  [actions |-> <<help>>, option_string_actions |-> {help},
         hasSubparsers |-> FALSE, commands |-> <<>>, defaults |-> <<>>]

\* The result of a step of schema construction: the parsers, and the error
\* that ended it ("none" when it completed).
Built(h) == [err |-> "none", h |-> h]
Failed(err, h) == [err |-> err, h |-> h]

\* The option strings registered with a parser.
OptionStrings(parser) == UNION {Range(a.flags) : a \in parser.option_string_actions}

\* parser.add_argument(...): ArgumentError on a conflicting option string,
\* else a new Action object, listed and registered under its option strings.
add_argument(h, p, opt) ==
    IF Range(opt.flags) \cap OptionStrings(h[p]) # {}
    THEN Failed("ArgumentError", h)
    ELSE LET a == Action(opt, NewId(h, opt))
         IN  Built([h EXCEPT ![p].actions = Append(@, a),
                             ![p].option_string_actions = @ \cup {a}])

\* The add_argument calls of one method, in order, up to the first that raises.
RECURSIVE add_arguments(_, _, _)
add_arguments(h, p, opts) ==
    IF Len(opts) = 0 THEN Built(h)
    ELSE LET r == add_argument(h, p, Head(opts))
         IN  IF r.err # "none" THEN r ELSE add_arguments(r.h, p, Tail(opts))

common_args_parser(h) == add_arguments(h, 1, common_options)
optimizer_shared_options(h, p) == add_arguments(h, p, shared_options)
backtesting_options(h, p) == add_arguments(h, p, backtesting_only_options)
edge_options(h, p) == add_arguments(h, p, edge_only_options)
hyperopt_options(h, p) == add_arguments(h, p, hyperopt_only_options)
scripts_options(h) == add_arguments(h, 1, scripts_only_options)
testdata_dl_options(h) == add_arguments(h, 1, testdata_dl_only_options)

\* self.parser.add_subparsers(dest='subparser'): a second call ends in
\* parser.error, which exits.
add_subparsers(h) ==
    IF h[1].hasSubparsers THEN Failed("SystemExit:2", h)
    ELSE Built([h EXCEPT ![1].hasSubparsers = TRUE])

\* subparsers.add_parser(name) followed by set_defaults(func=handler): a new
\* parser of its own, registered under name.
add_parser(h, name, handler) ==
    Append([h EXCEPT ![1].commands = Append(@, <<name, Len(h) + 1>>)],
           [NewParser(h) EXCEPT !.defaults = <<(<<"func", Imported(handler)>>)>>])

\* parser._remove_action(parser._actions[k]) on parser p: the object leaves
\* the list and stays registered under its option strings.
_remove_action(h, p, k) ==
    [h EXCEPT ![p].actions = SubSeq(@, 1, k - 1) \o SubSeq(@, k + 1, Len(@))]

\* action.default = v on the object id: every reference to it shows v.
set_default(h, id, v) ==
    LET changed(a) == IF a.id = id THEN [a EXCEPT !.default = v] ELSE a
    IN  [q \in 1..Len(h) |->
            [h[q] EXCEPT !.actions = [i \in 1..Len(h[q].actions) |-> changed(h[q].actions[i])],
                         !.option_string_actions = {changed(a) : a \in h[q].option_string_actions}]]

\* One sub-command of _build_subcommands: the parser, the shared options,
\* then the options of the command itself.
add_command(h, name, handler, own) ==
    LET h1 == add_parser(h, name, handler)
        cmd == Len(h1)
        r == optimizer_shared_options(h1, cmd)
    IN  IF r.err # "none" THEN r ELSE add_arguments(r.h, cmd, own)

_build_subcommands(h) ==
    LET r0 == add_subparsers(h) IN
    IF r0.err # "none" THEN r0 ELSE
    LET r1 == add_command(r0.h, "backtesting", "backtesting.start", backtesting_only_options) IN
    IF r1.err # "none" THEN r1 ELSE
    LET r2 == add_command(r1.h, "edge", "edge_cli.start", edge_only_options) IN
    IF r2.err # "none" THEN r2 ELSE
    add_command(r2.h, "hyperopt", "hyperopt.start", hyperopt_only_options)

_load_args(h) ==
    LET r == common_args_parser(h)
    IN  IF r.err # "none" THEN r ELSE _build_subcommands(r.h)

----------------------------------------------------------------------------
(* argparse: parsing an argument list                                       *)

\* The argument strings the facade is tried with, and what argparse reads off
\* their characters: whether the string starts with "-", the option string
\* and the value of an "--option=value" string, the characters of a numeral.
Tokens == {"-c", "5", "0", "--config=b", "-v", "--version", "hyperopt", "backtesting",
           "--random-state"}
DashTokens == {"-c", "--config=b", "-v", "--version", "--random-state"}
HasExplicitArg(tok) == tok = "--config=b"
FlagOf(tok) == IF tok = "--config=b" THEN "--config" ELSE tok
ExplicitArg(tok) == IF tok = "--config=b" THEN "b" ELSE tok
\* The characters of the numerals; of another string, that it is a word.
TokenText(tok) ==
    CASE tok = "5" -> <<"5">> [] tok = "0" -> <<"0">> [] OTHER -> <<"a">>

\* The value of an attribute: setattr on a Namespace.
SetAttr(ns, dest, v) == [d \in DOMAIN ns \cup {dest} |-> IF d = dest THEN v ELSE ns[d]]

\* The default of the first listed option of the parser that has dest d and
\* a default other than SUPPRESS.
OptionDefault(parser, d) ==
    LET gives(i) == parser.actions[i].dest = d /\ parser.actions[i].default # Suppress
        k == CHOOSE i \in 1..Len(parser.actions) :
                gives(i) /\ \A j \in 1..(i - 1) : ~gives(j)
    IN  parser.actions[k].default

\* The Namespace parse_known_args starts from: the defaults of the options,
\* the dest of the sub-commands, then what set_defaults stored.
InitialNamespace(parser) ==
    LET optionDests == {a.dest : a \in {b \in Range(parser.actions) : b.default # Suppress}}
        subDest == IF parser.hasSubparsers THEN {"subparser"} ELSE {}
        setDests == {q[1] : q \in Range(parser.defaults)}
    IN  [d \in optionDests \cup subDest \cup setDests |->
            IF d \in optionDests THEN OptionDefault(parser, d)
            ELSE IF d \in subDest THEN None
            ELSE (CHOOSE q \in Range(parser.defaults) : q[1] = d)[2]]

\* type(string) of an option raises (argparse then reports an error).
ConversionFails(type, tok) ==
    CASE type = "int" -> ~IsPyInt(TokenText(tok))
      [] type = "float" -> ~IsPyInt(TokenText(tok))
      [] type = "check_int_positive" -> check_int_positive(TokenText(tok)).status # "ok"
      [] OTHER -> FALSE

\* type(string) of an option.
Converted(type, tok) ==
    CASE type = "int" -> IntV(PyInt(TokenText(tok)))
      [] type = "float" -> FloatV(PyInt(TokenText(tok)))
      [] type = "check_int_positive" -> IntV(check_int_positive(TokenText(tok)).uint)
      [] OTHER -> StrV(tok)

\* The option strings are followed by this many value strings.
RECURSIVE ValueRun(_, _)
ValueRun(toks, i) ==
    IF i > Len(toks) \/ toks[i] \in DashTokens THEN 0 ELSE 1 + ValueRun(toks, i + 1)

\* The strings an option takes: its "=value", or the strings that follow it.
TakenStrings(a, toks, i) ==
    IF HasExplicitArg(toks[i]) THEN <<ExplicitArg(toks[i])>>
    ELSE IF a.nargs = "0" THEN <<>>
    ELSE IF a.nargs = "+" THEN SubSeq(toks, i + 1, i + ValueRun(toks, i + 1))
    ELSE SubSeq(toks, i + 1, i + (IF ValueRun(toks, i + 1) > 0 THEN 1 ELSE 0))

\* getattr(namespace, dest, None)
GetAttr(ns, dest) == IF dest \in DOMAIN ns THEN ns[dest] ELSE None

\* What an action leaves: the Namespace, or the exception it raised.
Taken(ns) == [err |-> "none", ns |-> ns]
Raises(err) == [err |-> err, ns |-> <<>>]

\* The action of an option on the Namespace, given the strings it took.
\* count adds 1 to a number (to 0 when the attribute is missing or None) and
\* raises TypeError on another value; append extends a list (an empty one
\* when the attribute is missing or None) and raises AttributeError on a
\* value without append.
TakeAction(ns, a, strings) ==
    LET vals == [k \in 1..Len(strings) |-> Converted(a.type, strings[k])]
        old == GetAttr(ns, a.dest)
    IN  CASE a.action = "count" ->
               IF old = None THEN Taken(SetAttr(ns, a.dest, IntV(1)))
               ELSE IF old.t = "int" THEN Taken(SetAttr(ns, a.dest, IntV(old.v + 1)))
               ELSE IF old.t = "bool"
               THEN Taken(SetAttr(ns, a.dest, IntV((IF old.v THEN 1 ELSE 0) + 1)))
               ELSE IF old.t = "float" THEN Taken(SetAttr(ns, a.dest, FloatV(old.v + 1)))
               ELSE Raises("TypeError")
          [] a.action = "store_true" -> Taken(SetAttr(ns, a.dest, BoolV(TRUE)))
          [] a.action = "store_false" -> Taken(SetAttr(ns, a.dest, BoolV(FALSE)))
          [] a.action = "append" ->
               IF old = None THEN Taken(SetAttr(ns, a.dest, ListV(vals)))
               ELSE IF old.t = "list" THEN Taken(SetAttr(ns, a.dest, ListV(old.v \o vals)))
               ELSE Raises("AttributeError")
          [] a.action = "store" ->
               Taken(SetAttr(ns, a.dest,
                             IF a.nargs = "+" THEN ListV(vals)
                             ELSE IF Len(vals) = 0 THEN a.const ELSE vals[1]))

Exit(code) == [exit |-> code, ns |-> <<>>, extras |-> <<>>]
Parsed(ns, extras) == [exit |-> "none", ns |-> ns, extras |-> extras]

\* The attributes of sub, set on ns one by one.
Merged(ns, sub) ==
    [d \in DOMAIN ns \cup DOMAIN sub |-> IF d \in DOMAIN sub THEN sub[d] ELSE ns[d]]

\* The end of _parse_known_args: the str default of every listed option from
\* the k-th on that was not seen, and is still the value of its dest, is
\* converted with the type of the option; a failing conversion is an error.
RECURSIVE ConvertDefaults(_, _, _, _, _)
ConvertDefaults(acts, k, ns, seen, extras) ==
    IF k > Len(acts) THEN Parsed(ns, extras)
    ELSE LET a == acts[k]
         IN  IF /\ a.id \notin seen
                /\ a.default.t = "str"
                /\ a.dest \in DOMAIN ns
                /\ ns[a.dest] = a.default
             THEN IF ConversionFails(a.type, a.default.v) THEN Exit("SystemExit:2")
                  ELSE ConvertDefaults(acts, k + 1,
                                       SetAttr(ns, a.dest, Converted(a.type, a.default.v)),
                                       seen, extras)
             ELSE ConvertDefaults(acts, k + 1, ns, seen, extras)

RECURSIVE Consume(_, _, _, _, _, _, _)

\* parser.parse_known_args(toks) on parser p.
ParseKnown(h, p, toks) == Consume(h, p, toks, 1, InitialNamespace(h[p]), {}, <<>>)

\* The loop of _parse_known_args from string i on: options are looked up by
\* their option string, an unknown option is set aside in extras, the first
\* positional string names the sub-command, which parses all that follows;
\* seen holds the options that acted.
Consume(h, p, toks, i, ns, seen, extras) ==
    IF i > Len(toks) THEN ConvertDefaults(h[p].actions, 1, ns, seen, extras)
    ELSE IF toks[i] \in DashTokens
    THEN LET known == {b \in h[p].option_string_actions : FlagOf(toks[i]) \in Range(b.flags)}
         IN  IF known = {} THEN Consume(h, p, toks, i + 1, ns, seen, Append(extras, toks[i]))
             ELSE LET a == CHOOSE b \in known : TRUE
                      strings == TakenStrings(a, toks, i)
                      used == IF HasExplicitArg(toks[i]) THEN 0 ELSE Len(strings)
                      taken == TakeAction(ns, a, strings)
                  IN  IF \/ HasExplicitArg(toks[i]) /\ a.nargs = "0"
                         \/ a.nargs \in {"1", "+"} /\ Len(strings) = 0
                         \/ \E k \in 1..Len(strings) :
                               \/ ConversionFails(a.type, strings[k])
                               \/ a.choices # {} /\ strings[k] \notin a.choices
                      THEN Exit("SystemExit:2")
                      ELSE IF a.action \in {"help", "version"} THEN Exit("SystemExit:0")
                      ELSE IF taken.err # "none" THEN Exit(taken.err)
                      ELSE Consume(h, p, toks, i + 1 + used, taken.ns, seen \cup {a.id},
                                   extras)
    ELSE IF h[p].hasSubparsers
    THEN LET named == {q \in Range(h[p].commands) : q[1] = toks[i]}
         IN  IF named = {} THEN Exit("SystemExit:2")
             ELSE LET sub == ParseKnown(h, (CHOOSE q \in named : TRUE)[2],
                                        SubSeq(toks, i + 1, Len(toks)))
                  IN  IF sub.exit # "none" THEN sub
                      ELSE ConvertDefaults(h[p].actions, 1,
                                           Merged(SetAttr(ns, "subparser", StrV(toks[i])),
                                                  sub.ns),
                                           seen, extras \o sub.extras)
    ELSE Consume(h, p, toks, i + 1, ns, seen, Append(extras, toks[i]))

\* Arguments.parse_args: parser.parse_args (which exits on a string left
\* unrecognised), then the default of config.
parse_args(h, toks) ==
    LET r == ParseKnown(h, 1, toks)
    IN  IF r.exit # "none" THEN r
        ELSE IF Len(r.extras) > 0 THEN Exit("SystemExit:2")
        ELSE IF "config" \notin DOMAIN r.ns THEN Exit("AttributeError")
        ELSE IF r.ns["config"] = None
        THEN Parsed(SetAttr(r.ns, "config", ListV(<<DEFAULT_CONFIG>>)), <<>>)
        ELSE Parsed(r.ns, <<>>)

----------------------------------------------------------------------------
(* Specifications                                                           *)

vars == <<text, tr, value, cip, args, parsed_arg, parsers, outcome, loads, calls, target>>

\* The facade as Arguments.__init__ leaves it, args apart.
FacadeConstructed ==
    /\ parsed_arg = None
    /\ parsers = <<NewParser(<<>>)>>
    /\ outcome = "none"
    /\ loads = 0
    /\ calls = 0
    /\ target = 0

FacadeUnused == args = <<>> /\ FacadeConstructed
PureUnused == text = [absent |-> TRUE, s |-> <<>>] /\ tr = Pending /\ value = <<>> /\ cip = NotCalled
facadeVars == <<args, parsed_arg, parsers, outcome, loads, calls, target>>
pureVars == <<text, tr, value, cip>>

AbsentText == [absent |-> TRUE, s |-> NoText]

\* parse_timerange applied to one argument.
ParseTimerange ==
    /\ tr = Pending
    /\ tr' = parse_timerange(text)
    /\ UNCHANGED <<text, value, cip>>
    /\ UNCHANGED facadeVars

InitTimerange ==
    /\ text \in TextArgs
    /\ tr = Pending
    /\ value = NoText
    /\ cip = NotCalled
    /\ FacadeUnused

NextTimerange == ParseTimerange

SpecTimerange == InitTimerange /\ [][NextTimerange]_vars

\* check_int_positive applied to one argument.
CheckIntPositive ==
    /\ cip = NotCalled
    /\ cip' = check_int_positive(value)
    /\ UNCHANGED <<text, tr, value>>
    /\ UNCHANGED facadeVars

InitInt ==
    /\ value \in Values
    /\ cip = NotCalled
    /\ text = AbsentText
    /\ tr = Pending
    /\ FacadeUnused

NextInt == CheckIntPositive

SpecInt == InitInt /\ [][NextInt]_vars

Namespace(ns) == [t |-> "Namespace", v |-> ns]

\* The longest argument list tried, and the most calls made on one facade.
MaxArgs == 3
MaxCalls == 3

ArgLists == UNION {[1..n -> Tokens] : n \in 0..MaxArgs}

\* A variant of NeedsLoad that forgets what was parsed.
NeedsLoad_always(pa) == TRUE

\* `if self.parsed_arg is None`
NeedsLoad(pa) == pa = None

\* Arguments.get_parsed_arg: the first call builds the schema and parses.
GetParsedArg ==
    /\ calls < MaxCalls
    /\ calls' = calls + 1
    /\ IF NeedsLoad(parsed_arg)
       THEN LET b == _load_args(parsers)
                r == parse_args(b.h, args)
            IN  /\ loads' = loads + 1
                /\ parsers' = b.h
                /\ IF b.err # "none"
                   THEN outcome' = b.err /\ parsed_arg' = parsed_arg
                   ELSE IF r.exit # "none"
                   THEN outcome' = r.exit /\ parsed_arg' = parsed_arg
                   ELSE outcome' = "returned" /\ parsed_arg' = Namespace(r.ns)
       ELSE /\ outcome' = "returned"
            /\ UNCHANGED <<parsed_arg, parsers, loads>>
    /\ UNCHANGED <<args, target>>
    /\ UNCHANGED pureVars

InitFacade ==
    /\ args \in ArgLists
    /\ FacadeConstructed
    /\ PureUnused

NextFacade == GetParsedArg

SpecFacade == InitFacade /\ [][NextFacade]_vars

\* The most calls made on the schema in one run of SpecCompose.
MaxGroupCalls == 2

\* Arguments._load_args, as get_parsed_arg calls it.
LoadArgs ==
    /\ calls < MaxGroupCalls
    /\ calls' = calls + 1
    /\ LET b == _load_args(parsers)
       IN  /\ parsers' = b.h
           /\ outcome' = IF b.err = "none" THEN "returned" ELSE b.err
    /\ loads' = loads + 1
    /\ target' = 0
    /\ UNCHANGED <<args, parsed_arg>>
    /\ UNCHANGED pureVars

\* An option-group method called on parser p (a static method on the parser it
\* is given, an instance method on self.parser, parser 1), built being its
\* result.
GroupCall(p, built) ==
    /\ calls < MaxGroupCalls
    /\ calls' = calls + 1
    /\ parsers' = built.h
    /\ outcome' = IF built.err = "none" THEN "returned" ELSE built.err
    /\ target' = p
    /\ UNCHANGED <<args, parsed_arg, loads>>
    /\ UNCHANGED pureVars

OptimizerSharedOptions ==
    \E p \in 1..Len(parsers) : GroupCall(p, optimizer_shared_options(parsers, p))

BacktestingOptions ==
    \E p \in 1..Len(parsers) : GroupCall(p, backtesting_options(parsers, p))

EdgeOptions ==
    \E p \in 1..Len(parsers) : GroupCall(p, edge_options(parsers, p))

HyperoptOptions ==
    \E p \in 1..Len(parsers) : GroupCall(p, hyperopt_options(parsers, p))

\* The methods that add their options to self.parser, called on their own.
CommonArgsParser ==
    /\ GroupCall(1, common_args_parser(parsers))

ScriptsOptions ==
    /\ GroupCall(1, scripts_options(parsers))

TestdataDlOptions ==
    /\ GroupCall(1, testdata_dl_options(parsers))

\* What a caller does to the option list of a parser it holds: it removes
\* the k-th option, or gives it another default; k is one of the first
\* MaxPosition options of the list.
MaxPosition == 4

Positions(parser) == {k \in 1..Len(parser.actions) : k <= MaxPosition}

RemoveAction ==
    \E p \in 1..Len(parsers) : \E k \in Positions(parsers[p]) :
        GroupCall(p, Built(_remove_action(parsers, p, k)))

ChangedDefault == StrV("changed")

ChangeDefault ==
    \E p \in 1..Len(parsers) : \E k \in Positions(parsers[p]) :
        GroupCall(p, Built(set_default(parsers, parsers[p].actions[k].id, ChangedDefault)))

\* Arguments.parse_args called on its own, on the parsers as they are.
ParseArgs ==
    /\ LET r == parse_args(parsers, args)
       IN  outcome' = IF r.exit = "none" THEN "returned" ELSE r.exit
    /\ target' = 0
    /\ UNCHANGED <<args, parsed_arg, parsers, loads, calls>>
    /\ UNCHANGED pureVars

\* The argument lists the facade is constructed with.
ComposeArgLists == {<<>>, <<"-v">>, <<"-c", "5">>, <<"backtesting">>}

InitCompose ==
    /\ args \in ComposeArgLists
    /\ FacadeConstructed
    /\ PureUnused

NextCompose ==
    \/ LoadArgs
    \/ OptimizerSharedOptions
    \/ BacktestingOptions
    \/ EdgeOptions
    \/ HyperoptOptions
    \/ CommonArgsParser
    \/ ScriptsOptions
    \/ TestdataDlOptions
    \/ RemoveAction
    \/ ChangeDefault
    \/ ParseArgs

SpecCompose == InitCompose /\ [][NextCompose]_vars

----------------------------------------------------------------------------
(* Properties of parse_timerange                                            *)

\* The text of the call with one final newline dropped: Python's '$' accepts
\* one, so "100-\n" is matched exactly as "100-" is.
Shown == BeforeFinalNewline(text.s)

\* t is [digits]-[digits] with at least one digit: the union of the nine forms.
WellFormed(t) ==
    /\ Cardinality(Dashes(t)) = 1
    /\ Len(t) > 1
    /\ \A i \in 1..Len(t) : t[i] \in DigitChars \cup {"-"}

DashAt(t) == CHOOSE i \in Dashes(t) : TRUE
LeftOf(t) == SubSeq(t, 1, DashAt(t) - 1)
RightOf(t) == SubSeq(t, DashAt(t) + 1, Len(t))

DateLens == {DateLen, EpochLen}

\* t has the shape of one of the rules 1-6.
DateShape(t) ==
    /\ WellFormed(t)
    /\ \/ Len(LeftOf(t)) = 0 /\ Len(RightOf(t)) \in DateLens
       \/ Len(RightOf(t)) = 0 /\ Len(LeftOf(t)) \in DateLens
       \/ Len(LeftOf(t)) = Len(RightOf(t)) /\ Len(LeftOf(t)) \in DateLens

Called == tr.status # "pending"
ReturnedRange == tr.status = "ok"

\* Every group of 8 or 10 digits of the text got the kind 'date'.
DateGroupsAreDates ==
    /\ Len(LeftOf(Shown)) \in DateLens => tr.starttype = "date"
    /\ Len(RightOf(Shown)) \in DateLens => tr.stoptype = "date"

\* C1 as stated: in every range returned for a present text, each group of
\* exactly 8 or exactly 10 digits has the kind 'date', whatever the other side is.
C1_AsStated ==
    (ReturnedRange /\ ~text.absent) => DateGroupsAreDates

\* C1 amended: in every range returned for a present text, a group of exactly
\* 8 or 10 digits has the kind 'date' when the text is one-sided or its two
\* groups have the same length; a two-sided text whose groups differ in length
\* is matched by rule 9 and both sides get the kind 'index'.
C1_DateGroups ==
    (ReturnedRange /\ ~text.absent) =>
        LET l == Len(LeftOf(Shown))
            r == Len(RightOf(Shown))
        IN  /\ (l = 0 \/ r = 0 \/ l = r) => DateGroupsAreDates
            /\ (l > 0 /\ r > 0 /\ l # r) =>
                  tr.starttype = "index" /\ tr.stoptype = "index"

C1_Witness ==
    /\ ReturnedRange /\ ~text.absent
    /\ Len(LeftOf(Shown)) = DateLen /\ Len(RightOf(Shown)) = DateLen
    /\ tr.starttype = "date" /\ tr.stoptype = "date"

KindPairs ==
    {<<"none", "date">>, <<"date", "none">>, <<"date", "date">>, <<"none", "line">>,
     <<"line", "none">>, <<"index", "index">>, <<"none", "none">>}

\* C2: every TimeRange returned has its pair of kinds in the fixed set, and a
\* side of kind none has the value 0.
C2_KindPairs ==
    ReturnedRange =>
        /\ <<tr.starttype, tr.stoptype>> \in KindPairs
        /\ tr.starttype = "none" => tr.startts = 0
        /\ tr.stoptype = "none" => tr.stopts = 0

C2_Witness ==
    /\ ReturnedRange /\ ~text.absent
    /\ tr.starttype = "none" /\ tr.stoptype = "date" /\ tr.stopts > 0

\* C3: a present text that is not [digits]-[digits] (one final newline apart,
\* which '$' accepts) gets no TimeRange: the call raises the Exception whose
\* message carries the text.
C3_NoMatchRaises ==
    (Called /\ ~text.absent /\ ~WellFormed(Shown)) =>
        tr.status = "Exception" /\ tr.text = text.s

C3_Witness ==
    /\ Called /\ ~text.absent /\ ~WellFormed(Shown)
    /\ Len(text.s) > 0
    /\ tr.status = "Exception" /\ tr.text = text.s

\* The digits of g written in ASCII.
Ascii(g) == [i \in 1..Len(g) |-> DigitChar(1, DigitVal(g[i]))]

\* The civil date of a day number counted from 1970-01-01 (days >= -719468).
CivilFromDays(days) ==
    LET z == days + 719468
        era == z \div 146097
        doe == z - era * 146097
        yoe == (doe - (doe \div 1460) + (doe \div 36524) - (doe \div 146096)) \div 365
        doy == doe - (365 * yoe + (yoe \div 4) - (yoe \div 100))
        mp == (5 * doy + 2) \div 153
        d == doy - ((153 * mp + 2) \div 5) + 1
        m == IF mp < 10 THEN mp + 3 ELSE mp - 9
        y == yoe + era * 400 + (IF m <= 2 THEN 1 ELSE 0)
    IN  <<y, m, d>>

MonthLengths == <<31, 28, 31, 30, 31, 30, 31, 31, 30, 31, 30, 31>>

\* The 8 digits g name a day of the calendar (years 0001 to 9999).
CalendarDay(g) ==
    LET y == DigitsValue(SubSeq(g, 1, 4))
        m == DigitsValue(SubSeq(g, 5, 6))
        d == DigitsValue(SubSeq(g, 7, 8))
        leap == (y % 4 = 0 /\ y % 100 # 0) \/ y % 400 = 0
    IN  /\ y >= 1 /\ m \in 1..12 /\ d >= 1
        /\ d <= (IF m = 2 /\ leap THEN 29 ELSE MonthLengths[m])

\* The side with digits g got the kind and value the rules 1-6 give it.
DateSide(g, kind, val) ==
    IF Len(g) = 0 THEN kind = "none" /\ val = 0
    ELSE /\ kind = "date"
         /\ Len(g) = DateLen =>
               /\ val % SecondsPerDay = 0
               /\ LET c == CivilFromDays(val \div SecondsPerDay)
                  IN  Numeral(c[1], 4) \o Numeral(c[2], 2) \o Numeral(c[3], 2) = Ascii(g)
         /\ Len(g) = EpochLen => val >= 0 /\ Numeral(val, EpochLen) = Ascii(g)

DateSidesAsRead ==
    /\ ReturnedRange
    /\ DateSide(LeftOf(text.s), tr.starttype, tr.startts)
    /\ DateSide(RightOf(text.s), tr.stoptype, tr.stopts)

\* C4 as stated: every text of the shape of a rule 1-6, whatever its digits,
\* gets a TimeRange with its sides read as dates.
C4_AsStated ==
    (Called /\ ~text.absent /\ DateShape(text.s)) => DateSidesAsRead

\* C4 amended: a text of the shape of a rule 1-6 whose 8-digit groups each name
\* a day of the calendar gets a TimeRange: an 8-digit side is the epoch seconds
\* of 00:00:00 UTC of that day, a 10-digit side is its digits unchanged, a side
\* without digits is (none, 0).  When an 8-digit group names no day of the
\* calendar the call raises datetime's ValueError and returns nothing.
C4_DatesAsRead ==
    (Called /\ ~text.absent /\ DateShape(text.s)) =>
        IF /\ Len(LeftOf(text.s)) = DateLen => CalendarDay(LeftOf(text.s))
           /\ Len(RightOf(text.s)) = DateLen => CalendarDay(RightOf(text.s))
        THEN DateSidesAsRead
        ELSE tr.status = "ValueError"

C4_Witness ==
    /\ Called /\ ~text.absent /\ DateShape(text.s)
    /\ text.s = Numeral(20180101, 8) \o <<"-">> \o Numeral(20180201, 8)
    /\ tr = TimeRange("date", "date", 1514764800, 1517443200)

\* C5: a text matched by a generic rule and by no date rule: "-N" gives
\* (none, line, 0, -N), "N-" gives (line, none, N, 0), "N-M" gives
\* (index, index, N, M), the integers being the digits of the text.
C5_GenericRules ==
    (Called /\ ~text.absent /\ WellFormed(Shown) /\ ~DateShape(Shown)) =>
        LET l == LeftOf(Shown)
            r == RightOf(Shown)
        IN  /\ ReturnedRange
            /\ Len(l) = 0 =>
                  /\ tr.starttype = "none" /\ tr.stoptype = "line" /\ tr.startts = 0
                  /\ tr.stopts <= 0 /\ Numeral(0 - tr.stopts, Len(r)) = Ascii(r)
            /\ Len(r) = 0 =>
                  /\ tr.starttype = "line" /\ tr.stoptype = "none" /\ tr.stopts = 0
                  /\ tr.startts >= 0 /\ Numeral(tr.startts, Len(l)) = Ascii(l)
            /\ (Len(l) > 0 /\ Len(r) > 0) =>
                  /\ tr.starttype = "index" /\ tr.stoptype = "index"
                  /\ tr.startts >= 0 /\ Numeral(tr.startts, Len(l)) = Ascii(l)
                  /\ tr.stopts >= 0 /\ Numeral(tr.stopts, Len(r)) = Ascii(r)

C5_Witness ==
    /\ Called /\ ~text.absent /\ WellFormed(Shown) /\ ~DateShape(Shown)
    /\ Len(LeftOf(Shown)) = 0
    /\ tr.stoptype = "line" /\ tr.stopts < 0

\* C6: an absent text gives exactly TimeRange(none, none, 0, 0), never an error.
C6_AbsentText ==
    (Called /\ text.absent) =>
        /\ tr.status = "ok"
        /\ tr.starttype = "none" /\ tr.stoptype = "none"
        /\ tr.startts = 0 /\ tr.stopts = 0

C6_Witness == Called /\ text.absent /\ tr.status = "ok"

----------------------------------------------------------------------------
(* Properties of check_int_positive                                         *)

\* C8: the call returns int(value) when value denotes an integer greater than
\* 0, raises ArgumentTypeError naming the value otherwise, and never returns a
\* value less than or equal to 0.
C8_PositiveInt ==
    cip.status # "pending" =>
        /\ (IsPyInt(value) /\ PyInt(value) > 0) =>
              cip.status = "ok" /\ cip.uint = PyInt(value)
        /\ ~(IsPyInt(value) /\ PyInt(value) > 0) =>
              cip.status = "ArgumentTypeError" /\ cip.value = value
        /\ cip.status = "ok" => cip.uint > 0
        /\ (cip.status = "ok" /\ IsDigits(value)) => Numeral(cip.uint, Len(value)) = Ascii(value)

C8_Witness ==
    /\ cip.status = "ok" /\ cip.uint = 5
    /\ value = <<"5">>

----------------------------------------------------------------------------
(* Properties of the facade                                                 *)

\* The values given with -c / --config in an argument list, in order.
RECURSIVE SuppliedConfigs(_)
SuppliedConfigs(toks) ==
    IF Len(toks) = 0 THEN <<>>
    ELSE IF toks[1] = "--config=b" THEN <<StrV("b")>> \o SuppliedConfigs(Tail(toks))
    ELSE IF toks[1] = "-c" /\ Len(toks) > 1
    THEN <<StrV(toks[2])>> \o SuppliedConfigs(Tail(Tail(toks)))
    ELSE SuppliedConfigs(Tail(toks))

\* C7: in the result of parse_args, config is the one default path when no
\* -c/--config was given and exactly the given values, in order, otherwise;
\* the option itself carries no default in the schema.
C7_ConfigList ==
    parsed_arg # None =>
        /\ parsed_arg.v["config"] =
              ListV(IF SuppliedConfigs(args) = <<>> THEN <<DEFAULT_CONFIG>>
                    ELSE SuppliedConfigs(args))
        /\ \A a \in Range(parsers[1].actions) : a.dest = "config" => a.default = None

C7_Witness ==
    /\ parsed_arg # None
    /\ args = <<"-c", "5", "--config=b">>
    /\ parsed_arg.v["config"] = ListV(<<StrV("5"), StrV("b")>>)

\* C9 as stated: whatever the earlier calls ended in, _load_args runs at most
\* once, the schema once built is not modified, and a parsed result is kept.
C9_AsStated ==
    [][ /\ loads' <= 1
        /\ loads >= 1 => parsers' = parsers
        /\ parsed_arg # None => parsed_arg' = parsed_arg /\ loads' = loads ]_vars

\* C9 amended: once a call has succeeded, every later call returns the same
\* parsed result without building or parsing again, and _load_args has run
\* exactly once; the schema once built is never modified.  After a call that
\* failed, parsed_arg is still None and the next call runs _load_args again on
\* the same parser: it raises ArgumentError at its first add_argument.
C9_BuiltOnce ==
    [][ /\ parsed_arg # None =>
              /\ loads' = loads /\ parsers' = parsers
              /\ parsed_arg' = parsed_arg /\ outcome' = "returned"
        /\ parsed_arg' # None => loads' = 1
        /\ loads >= 1 => parsers' = parsers
        /\ (loads >= 1 /\ parsed_arg = None) =>
              /\ loads' = loads + 1 /\ outcome' = "ArgumentError"
              /\ parsed_arg' = None ]_vars

C9_Witness ==
    /\ parsed_arg # None /\ calls >= 2 /\ loads = 1
    /\ outcome = "returned"
    /\ Len(parsers) = 4

\* The options of a parser, as its Action objects are now.
Options(parser) == [k \in 1..Len(parser.actions) |-> OptionOf(parser.actions[k])]

\* The options a command got from the shared group: those after -h/--help.
SharedPart(parser) == SubSeq(Options(parser), 2, 1 + Len(shared_options))

SharedDests == <<"ticker_interval", "timerange", "max_open_trades", "stake_amount",
                 "refresh_pairs">>

ActionIds(parser) == {a.id : a \in Range(parser.actions) \cup parser.option_string_actions}

\* C10: every command has an option list of its own.  Whatever is done to one
\* parser (options added by a group method, an option removed, the default of
\* an option changed) leaves every other parser as it was; no two parsers
\* refer to one Action object; and the step that composes the commands makes
\* backtesting, edge and hyperopt, each with the five shared-optimizer
\* options right after -h/--help.
C10_Independent ==
    [][ /\ \A q \in 1..Len(parsers) :
              (target' # 0 /\ q # target') => parsers'[q] = parsers[q]
        /\ \A q, r \in 1..Len(parsers') :
              q # r => ActionIds(parsers'[q]) \cap ActionIds(parsers'[r]) = {}
        /\ \A c, d \in Range(parsers'[1].commands) : c[2] = d[2] => c = d
        /\ Len(parsers') # Len(parsers) =>
              /\ [k \in 1..Len(parsers'[1].commands) |-> parsers'[1].commands[k][1]]
                    = <<"backtesting", "edge", "hyperopt">>
              /\ \A c \in Range(parsers'[1].commands) :
                    /\ SharedPart(parsers'[c[2]]) = shared_options
                    /\ [k \in 1..Len(shared_options) |-> SharedPart(parsers'[c[2]])[k].dest]
                          = SharedDests ]_vars

\* The default of --timerange was changed in the backtesting command: edge
\* and hyperopt are as built, --timerange of hyperopt has the default of the
\* shared group.
C10_Witness ==
    /\ Len(parsers) = 4 /\ target = 2 /\ outcome = "returned"
    /\ Options(parsers[2]) =
          <<HelpOption, shared_options[1], [shared_options[2] EXCEPT !.default = ChangedDefault]>>
          \o SubSeq(shared_options, 3, Len(shared_options)) \o backtesting_only_options
    /\ Options(parsers[3]) = <<HelpOption>> \o shared_options \o edge_only_options
    /\ Options(parsers[4]) = <<HelpOption>> \o shared_options \o hyperopt_only_options

====
